---- MODULE Spec2Model ----
(***************************************************************************)
(* Model of BudgeterProject: the accounting and projection engine          *)
(* (src/src/budgeter_core.py: Transaction, Goal and Account) and the       *)
(* persistence and retention code of the window (src/src/budgeter_gui.py). *)
(*                                                                         *)
(* Amounts are integers (the unit tests construct entries from Python      *)
(* ints, which the dataclass keeps as ints and sum() adds exactly).        *)
(* Dates are day numbers; `today` is what date.today() returns.            *)
(***************************************************************************)
EXTENDS Integers, Sequences, FiniteSets, TLC

\* ------------------------------------------------------------------ bounds
\* Largest number of entries an account holds in the model.
MaxTxns == 2

\* ------------------------------------------------------------------ inputs
\* Amounts handed to the constructor: rejected ones (-5, 0) and accepted ones.
AmountInputs == {-5, 0, 200, 1000}
\* Kinds handed to the constructor: the two accepted ones and a rejected one.
KindInputs == {"income", "expense", "other"}
\* Categories are unconstrained strings.
Categories == {"Salary"}
\* Dates given explicitly to Transaction(..., date=d): an entry of the past.
ExplicitDates == {-6}
\* lookback_days arguments of estimate_eta_weeks; the last one reaches back
\* beyond the first day a date can hold.
Lookbacks == {-7, 0, 7, 56, 1000000}
\* n arguments of recent_transactions.
RecentArgs == 0 .. (MaxTxns + 1)
\* The days date.today() takes, in order.
Days == {0, 1}

\* Account.goal is None.
NoGoal == [present |-> FALSE, name |-> "", current_amount |-> 0, target_amount |-> 0]

\* Goal(name, current_amount, target_amount): a plain dataclass, no validation.
Goal(name, current_amount, target_amount) ==
    [present |-> TRUE, name |-> name,
     current_amount |-> current_amount, target_amount |-> target_amount]

\* The goals an account is constructed with.
GoalChoices ==
    {NoGoal, Goal("Trip", 0, 1000), Goal("Trip", 500, 1000), Goal("Trip", 0, 0)}

VARIABLES
    transactions,   \* Account.transactions: the entries, in insertion order
    goal,           \* Account.goal: NoGoal or a Goal
    today,          \* the system clock in days: date.today(), datetime.now()
    last,           \* the last call on the account: its arguments and outcome
    records,        \* the window's self.transactions: a list of dicts
    disk,           \* the data directory and the four snapshot files in it
    gui,            \* the window: running or not, goals, bills, balance
    out             \* the last operation of the window and its outcome

\* The state of the window and its files.
guiVars == <<records, disk, gui, out>>

vars == <<transactions, goal, today, last, records, disk, gui, out>>

\* ------------------------------------------------------------ Transaction
AmountMsg == "amount must be > 0"
KindMsg == "t_type must be 'income' or 'expense'"

\* A call that returned `value`.
Returned(value) == [raised |-> FALSE, exc |-> "", msg |-> "", value |-> value]
\* A call that raised exception class `exc` with message `msg`.
Raised(exc, msg) == [raised |-> TRUE, exc |-> exc, msg |-> msg, value |-> <<>>]

\* Mutant of Transaction: the two checks in the other order.
Transaction_KindFirst(amount, t_type, category, note, date) ==
    IF t_type \notin {"income", "expense"} THEN Raised("ValueError", KindMsg)
    ELSE IF amount <= 0 THEN Raised("ValueError", AmountMsg)
    ELSE Returned([amount |-> amount, t_type |-> t_type, category |-> category,
                   note |-> note, date |-> date])

\* Mutant of Transaction: the kind is not checked.
Transaction_NoKindCheck(amount, t_type, category, note, date) ==
    IF amount <= 0 THEN Raised("ValueError", AmountMsg)
    ELSE Returned([amount |-> amount, t_type |-> t_type, category |-> category,
                   note |-> note, date |-> date])

\* Transaction.__post_init__: the amount is checked first, then the kind.
Transaction(amount, t_type, category, note, date) ==
    IF amount <= 0 THEN Raised("ValueError", AmountMsg)
    ELSE IF t_type \notin {"income", "expense"} THEN Raised("ValueError", KindMsg)
    ELSE Returned([amount |-> amount, t_type |-> t_type, category |-> category,
                   note |-> note, date |-> date])

\* Mutant of signed_amount: the sign is not applied.
signed_amount_Unsigned(t) == t.amount

\* Transaction.signed_amount
signed_amount(t) == IF t.t_type = "income" THEN t.amount ELSE -t.amount

\* ------------------------------------------------------------------- Goal
Max(a, b) == IF a >= b THEN a ELSE b

\* Mutant of remaining: progress is read from the goal's current_amount.
remaining_FromCurrent(g, bal) == Max(0, g.target_amount - g.current_amount)

\* Mutant of remaining: the goal's current_amount counts as progress on top
\* of the balance.
remaining_LessCurrent(g, bal) == Max(0, g.target_amount - bal - g.current_amount)

\* Goal.remaining(balance)
remaining(g, bal) == Max(0, g.target_amount - bal)

\* ---------------------------------------------------------------- Account
RECURSIVE SumFrom(_, _, _)
\* Python's sum(): the items added left to right onto the start value.
SumFrom(acc, s, i) ==
    IF i > Len(s) THEN acc ELSE SumFrom(acc + signed_amount(s[i]), s, i + 1)

\* Account.balance()
balance(txns) == SumFrom(0, txns, 1)

\* The list slice s[start:] of Python, for any integer start.
SliceFrom(s, start) ==
    LET lo == IF start < 0 THEN Max(Len(s) + start, 0)
              ELSE IF start > Len(s) THEN Len(s) ELSE start
    IN  SubSeq(s, lo + 1, Len(s))

\* Mutant of recent_transactions: the first n entries, self.transactions[:n].
recent_transactions_Head(txns, n) ==
    SubSeq(txns, 1, IF n > Len(txns) THEN Len(txns) ELSE n)

\* Account.recent_transactions(n): self.transactions[-n:]
recent_transactions(txns, n) == SliceFrom(txns, -n)

\* Python's round-half-to-even of the non-negative fraction num/den, as the
\* format specs ".0f" and ".1f" round.
RoundHalfEven(num, den) ==
    LET q == num \div den
        r == num % den
    IN  IF 2 * r < den THEN q
        ELSE IF 2 * r > den THEN q + 1
        ELSE IF q % 2 = 0 THEN q ELSE q + 1

\* (k * 2^e) % 5 for the e that scales n/d = k/5 into [2^52, 2^53), the
\* mantissa range of a double; f is 2^e % 5 so far (2^52 % 5 = 1, halving
\* multiplies by 3, the inverse of 2 modulo 5).
RECURSIVE MantissaResidue(_, _, _, _)
MantissaResidue(k, n, d, f) ==
    IF n >= 2 * d THEN MantissaResidue(k, n, 2 * d, (3 * f) % 5)
    ELSE IF n < d THEN MantissaResidue(k, 2 * n, d, (2 * f) % 5)
    ELSE (k * f) % 5

\* Whether the double nearest k/5 (5 does not divide k) lies above k/5: the
\* division remaining / avg_per_week rounds the mantissa to nearest.
DoubleAbove(k) == MantissaResidue(k, k, 5, 1) >= 3

\* ".1f" of months = weeks / 4, in tenths, num/den being ten times months.
\* Half a tenth is (2q+1)/20 months, that is (2q+1)/5 weeks: a binary
\* fraction when 5 divides 2q+1, and then the tie goes to the even digit;
\* otherwise weeks is the nearest double and the digit follows its side.
\* (avg_per_week is exact for the lookbacks used here: lookback_days / 7 is
\* a power of two or at most 1.)
RoundTenths(num, den) ==
    LET q == num \div den
        r == num % den
    IN  IF 2 * r # den THEN RoundHalfEven(num, den)
        ELSE IF (2 * q + 1) % 5 = 0 THEN RoundHalfEven(num, den)
        ELSE IF DoubleAbove(2 * q + 1) THEN q + 1 ELSE q

\* A sentinel string returned by estimate_eta_weeks.
Sentinel(text) == [text |-> text, numeric |-> FALSE, weeks |-> 0, months10 |-> 0]

\* f"~{weeks:.0f} weeks (~{months:.1f} months)", weeks = wnum/wden and
\* months = weeks / 4; months10 is the rendered months in tenths.
Estimate(wnum, wden) ==
    LET w == RoundHalfEven(wnum, wden)
        m == RoundTenths(10 * wnum, 4 * wden)
    IN  [text |-> "~" \o ToString(w) \o " weeks (~" \o ToString(m \div 10)
                  \o "." \o ToString(m % 10) \o " months)",
         numeric |-> TRUE, weeks |-> w, months10 |-> m]

\* [t for t in self.transactions if t.date >= cutoff]
RecentSince(txns, cutoff) == SelectSeq(txns, LAMBDA t : t.date >= cutoff)

\* max(1, lookback_days / 7) as the fraction <<numerator, denominator>>.
LookbackWeeks(lookback_days) ==
    IF lookback_days > 7 THEN <<lookback_days, 7>> ELSE <<1, 1>>

\* date.today().toordinal() on day 0 of the model (1 January 2026).
Day0Ordinal == 739617
\* date.min.toordinal() and date.max.toordinal().
DateMinOrdinal == 1
DateMaxOrdinal == 3652059

\* Whether day `d` of the model is a date Python can hold; date - timedelta
\* raises OverflowError otherwise.
DateInRange(d) ==
    /\ Day0Ordinal + d >= DateMinOrdinal
    /\ Day0Ordinal + d <= DateMaxOrdinal

\* Mutant of EtaWithGoal: the empty account is tested before the remainder.
EtaWithGoal_DataFirst(g, txns, now, lookback_days) ==
    IF txns = <<>> THEN Returned(Sentinel("Add more data"))
    ELSE LET rem == remaining(g, balance(txns)) IN
    IF rem <= 0 THEN Returned(Sentinel("Goal reached"))
    ELSE IF ~DateInRange(now - lookback_days)
         THEN Raised("OverflowError", "date value out of range")
    ELSE LET recent == RecentSince(txns, now - lookback_days) IN
    IF recent = <<>> THEN Returned(Sentinel("Add more recent data"))
    ELSE LET net == balance(recent)
             d == LookbackWeeks(lookback_days) IN
    IF net * d[2] <= 0 THEN Returned(Sentinel("No positive trend"))
    ELSE Returned(Estimate(rem * d[1], net * d[2]))

\* Mutant of EtaWithGoal: the net is taken over all entries, not over the
\* entries of the lookback window.
EtaWithGoal_NetOfAll(g, txns, now, lookback_days) ==
    LET rem == remaining(g, balance(txns)) IN
    IF rem <= 0 THEN Returned(Sentinel("Goal reached"))
    ELSE IF txns = <<>> THEN Returned(Sentinel("Add more data"))
    ELSE IF ~DateInRange(now - lookback_days)
         THEN Raised("OverflowError", "date value out of range")
    ELSE LET recent == RecentSince(txns, now - lookback_days) IN
    IF recent = <<>> THEN Returned(Sentinel("Add more recent data"))
    ELSE LET net == balance(txns)
             d == LookbackWeeks(lookback_days) IN
    IF net * d[2] <= 0 THEN Returned(Sentinel("No positive trend"))
    ELSE Returned(Estimate(rem * d[1], net * d[2]))

\* Account.estimate_eta_weeks(lookback_days) from `bal = self.balance()` on,
\* for an account that has a goal, evaluated on day `now`.
\* avg_per_week = net / (d[1]/d[2]) = net * d[2] / d[1], d[1] > 0 and d[2] > 0;
\* weeks = remaining / avg_per_week = remaining * d[1] / (net * d[2]).
\* The source's "Goal reached" string ends with a space and the party-popper
\* emoji (U+1F389), which a TLA+ string cannot hold.
\* cutoff = date.today() - timedelta(days=lookback_days) raises OverflowError
\* when the cutoff is not a date of the years 1 to 9999.
EtaWithGoal(g, txns, now, lookback_days) ==
    LET rem == remaining(g, balance(txns)) IN
    IF rem <= 0 THEN Returned(Sentinel("Goal reached"))
    ELSE IF txns = <<>> THEN Returned(Sentinel("Add more data"))
    ELSE IF ~DateInRange(now - lookback_days)
         THEN Raised("OverflowError", "date value out of range")
    ELSE LET recent == RecentSince(txns, now - lookback_days) IN
    IF recent = <<>> THEN Returned(Sentinel("Add more recent data"))
    ELSE LET net == balance(recent)
             d == LookbackWeeks(lookback_days) IN
    IF net * d[2] <= 0 THEN Returned(Sentinel("No positive trend"))
    ELSE Returned(Estimate(rem * d[1], net * d[2]))

\* Mutant of estimate_eta_weeks: the empty account is tested before the goal.
estimate_eta_weeks_DataFirst(g, txns, now, lookback_days) ==
    IF txns = <<>> THEN Returned(Sentinel("Add more data"))
    ELSE IF ~g.present THEN Returned(Sentinel("No goal set"))
    ELSE Returned(Sentinel("Goal reached"))

\* Account.estimate_eta_weeks(lookback_days), evaluated on day `now`: what it
\* returns, or the exception it raises.
estimate_eta_weeks(g, txns, now, lookback_days) ==
    IF ~g.present THEN Returned(Sentinel("No goal set"))
    ELSE EtaWithGoal(g, txns, now, lookback_days)

\* ---------------------------------------------------------------- actions
\* What `last` records of a call.
Call(op, arg, outcome) ==
    [op |-> op, arg |-> arg, raised |-> outcome.raised, exc |-> outcome.exc,
     msg |-> outcome.msg, ret |-> outcome.value]

\* The arguments of a Transaction(...) construction.
TxnArgs(amount, t_type, category, date) ==
    [amount |-> amount, t_type |-> t_type, category |-> category, date |-> date]

\* No window is open and its state is not looked at.
GuiIdle ==
    /\ records = <<>>
    /\ disk = <<>>
    /\ gui = <<>>
    /\ out = <<>>

Init ==
    /\ transactions = <<>>
    /\ goal \in GoalChoices
    /\ today = 0
    /\ last = Call("init", <<>>, Returned(<<>>))
    /\ GuiIdle

\* Mutant of NewTransaction: the entry is appended before it is validated.
NewTransaction_AppendFirst ==
    \E amount \in AmountInputs, t_type \in KindInputs, category \in Categories :
        LET r == Transaction(amount, t_type, category, "", today) IN
        /\ Len(transactions) < MaxTxns
        /\ transactions' = Append(transactions,
               [amount |-> amount, t_type |-> t_type, category |-> category,
                note |-> "", date |-> today])
        /\ last' = Call("new_transaction",
                        TxnArgs(amount, t_type, category, today), r)
        /\ UNCHANGED <<goal, today>>
        /\ UNCHANGED guiVars

\* Account.new_transaction(amount, t_type, category): the entry is constructed
\* (dated today) and, when the construction did not raise, appended.
NewTransactionOf(amounts, kinds) ==
    \E amount \in amounts, t_type \in kinds, category \in Categories :
        LET r == Transaction(amount, t_type, category, "", today) IN
        /\ r.raised \/ Len(transactions) < MaxTxns
        /\ transactions' = IF r.raised THEN transactions
                           ELSE Append(transactions, r.value)
        /\ last' = Call("new_transaction",
                        TxnArgs(amount, t_type, category, today), r)
        /\ UNCHANGED <<goal, today>>
        /\ UNCHANGED guiVars

\* new_transaction with the arguments of the account model.
NewTransaction == NewTransactionOf(AmountInputs, KindInputs)

\* Account.add_transaction(Transaction(amount, t_type, category, "", date)):
\* the caller constructs the entry with an explicit date; a construction that
\* raises never reaches add_transaction.
AddTransactionOf(amounts, kinds, dates) ==
    \E amount \in amounts, t_type \in kinds, category \in Categories,
       date \in dates :
        LET r == Transaction(amount, t_type, category, "", date) IN
        /\ r.raised \/ Len(transactions) < MaxTxns
        /\ transactions' = IF r.raised THEN transactions
                           ELSE Append(transactions, r.value)
        /\ last' = Call("add_transaction",
                        TxnArgs(amount, t_type, category, date),
                        IF r.raised THEN r ELSE Returned(<<>>))
        /\ UNCHANGED <<goal, today>>
        /\ UNCHANGED guiVars

\* add_transaction with the arguments of the account model.
AddTransaction == AddTransactionOf(AmountInputs, KindInputs, ExplicitDates)

\* Account.balance()
BalanceCall ==
    /\ last' = Call("balance", <<>>, Returned(balance(transactions)))
    /\ UNCHANGED <<transactions, goal, today>>
    /\ UNCHANGED guiVars

\* Mutant of RecentTransactionsCall: the account keeps only what it returns.
RecentTransactionsCall_Truncating ==
    \E n \in RecentArgs :
        /\ transactions' = recent_transactions(transactions, n)
        /\ last' = Call("recent_transactions", n, Returned(transactions'))
        /\ UNCHANGED <<goal, today>>
        /\ UNCHANGED guiVars

\* Account.recent_transactions(n)
RecentTransactionsCall ==
    \E n \in RecentArgs :
        /\ last' = Call("recent_transactions", n,
                        Returned(recent_transactions(transactions, n)))
        /\ UNCHANGED <<transactions, goal, today>>
        /\ UNCHANGED guiVars

\* Account.estimate_eta_weeks(lookback_days)
EstimateEtaCallOf(lookbacks) ==
    \E lookback_days \in lookbacks :
        /\ last' = Call("estimate_eta_weeks",
                        [lookback_days |-> lookback_days, on |-> today],
                        estimate_eta_weeks(goal, transactions, today,
                                           lookback_days))
        /\ UNCHANGED <<transactions, goal, today>>
        /\ UNCHANGED guiVars

\* estimate_eta_weeks with the arguments of the account model.
EstimateEtaCall == EstimateEtaCallOf(Lookbacks)

\* Midnight: date.today() moves on.
Tick ==
    /\ today + 1 \in Days
    /\ today' = today + 1
    /\ UNCHANGED <<transactions, goal, last>>
    /\ UNCHANGED guiVars

Next ==
    \/ NewTransaction
    \/ AddTransaction
    \/ BalanceCall
    \/ RecentTransactionsCall
    \/ EstimateEtaCall
    \/ Tick

Spec == Init /\ [][Next]_vars

\* ----------------------------------------------------------------- claims
\* The calls that construct a Transaction.
ConstructOps == {"new_transaction", "add_transaction"}
\* The kinds a Transaction accepts.
Kinds == {"income", "expense"}

\* C1: for every amount <= 0 and every kind (accepted or not), constructing a
\* Transaction raises the amount error (ValueError "amount must be > 0"), no
\* entry is returned, and the account never holds an entry of amount <= 0.
C1_NonPositiveAmountRejected ==
    /\ (last.op \in ConstructOps /\ last.arg.amount <= 0)
          => /\ last.raised
             /\ last.exc = "ValueError"
             /\ last.msg = AmountMsg
             /\ last.ret = <<>>
    /\ \A i \in 1 .. Len(transactions) : transactions[i].amount > 0

\* C1 witness: amount -5 with a kind that is itself not accepted was rejected
\* by an account that already holds an entry.
C1_Witness ==
    /\ last.op = "new_transaction"
    /\ last.arg.amount = -5
    /\ last.arg.t_type = "other"
    /\ last.raised
    /\ Len(transactions) = 1

\* C2 as stated: for every kind outside {income, expense}, whatever the
\* amount, the construction raises the kind error, which is not the amount
\* error.
C2_Original ==
    (last.op \in ConstructOps /\ last.arg.t_type \notin Kinds)
        => /\ last.raised
           /\ last.msg = KindMsg
           /\ last.msg # AmountMsg

\* C2 amended: for every kind outside {income, expense} and every amount > 0
\* the construction raises ValueError with the kind message and returns no
\* entry; with amount <= 0 it is the amount error that is raised. Both errors
\* are of the one class ValueError and differ in their message only.
C2_UnknownKindRejected ==
    /\ (last.op \in ConstructOps /\ last.arg.t_type \notin Kinds
            /\ last.arg.amount > 0)
          => /\ last.raised
             /\ last.exc = "ValueError"
             /\ last.msg = KindMsg
             /\ last.ret = <<>>
    /\ (last.op \in ConstructOps /\ last.arg.t_type \notin Kinds
            /\ last.arg.amount <= 0)
          => /\ last.raised
             /\ last.exc = "ValueError"
             /\ last.msg = AmountMsg
    /\ \A i \in 1 .. Len(transactions) : transactions[i].t_type \in Kinds

\* C2 witness: a positive amount with kind "other" was rejected.
C2_Witness ==
    /\ last.op = "new_transaction"
    /\ last.arg.amount = 200
    /\ last.arg.t_type = "other"
    /\ last.raised
    /\ last.msg = KindMsg

RECURSIVE AmountTotal(_, _, _)
\* The sum of the amounts of the entries of kind `kind` at the indices in `idx`.
AmountTotal(txns, kind, idx) ==
    IF idx = {} THEN 0
    ELSE LET i == CHOOSE j \in idx : TRUE
         IN  (IF txns[i].t_type = kind THEN txns[i].amount ELSE 0)
                 + AmountTotal(txns, kind, idx \ {i})

\* Every reordering of the sequence s.
Reorderings(s) ==
    LET n == Len(s)
        bij == {f \in [1 .. n -> 1 .. n] : \A i, j \in 1 .. n : f[i] = f[j] => i = j}
    IN  {[i \in 1 .. n |-> s[f[i]]] : f \in bij}

C4_RejectedLeavesAccount ==
    [][(last'.op = "new_transaction"
            /\ (last'.arg.amount <= 0 \/ last'.arg.t_type \notin Kinds))
          => /\ last'.raised
             /\ transactions' = transactions
             /\ goal' = goal
             /\ balance(transactions') = balance(transactions)]_vars

\* C4 witness: a new_transaction call was rejected by an account that holds
\* two entries and a goal.
C4_Witness ==
    /\ last.op = "new_transaction"
    /\ last.raised
    /\ Len(transactions) = 2
    /\ goal.present

Min(a, b) == IF a <= b THEN a ELSE b

\* C5 as stated: for every n >= 0, recent_transactions(n) returns at most n
\* items and at most as many as the account holds.
C5_AtMostN ==
    (last.op = "recent_transactions" /\ last.arg >= 0)
        => /\ Len(last.ret) <= last.arg
           /\ Len(last.ret) <= Len(transactions)

\* C5 witness of the failing case: recent_transactions(0) returned both
\* entries of an account that holds two.
C5_ZeroReturnsAll ==
    /\ last.op = "recent_transactions"
    /\ last.arg = 0
    /\ Len(transactions) = 2
    /\ last.ret = transactions

\* C6: for every n >= 1, recent_transactions(n) returns the last
\* min(n, count) entries, a contiguous suffix of the account's sequence in
\* insertion order, and the whole sequence when n exceeds the count.
C6_RecentIsSuffix ==
    (last.op = "recent_transactions" /\ last.arg >= 1)
        => LET count == Len(transactions)
               k == Min(last.arg, count)
           IN  /\ Len(last.ret) = k
               /\ \A i \in 1 .. k : last.ret[i] = transactions[count - k + i]
               /\ last.arg > count => last.ret = transactions

\* C6 witness: recent_transactions(1) returned the entry added last, which
\* differs from the one added first.
C6_Witness ==
    /\ last.op = "recent_transactions"
    /\ last.arg = 1
    /\ Len(transactions) = 2
    /\ transactions[1] # transactions[2]
    /\ last.ret = <<transactions[2]>>

\* The calls that only read the account.
QueryOps == {"balance", "recent_transactions", "estimate_eta_weeks"}

\* C7: balance(), recent_transactions(n) and estimate_eta_weeks(lookback_days)
\* leave the entry sequence (contents and order) and the goal as they were.
C7_QueriesLeaveAccount ==
    [][last'.op \in QueryOps
          => (transactions' = transactions /\ goal' = goal)]_vars

\* C7 witness: estimate_eta_weeks returned a numeric estimate to an account
\* that holds two different entries and a goal.
C7_Witness ==
    /\ last.op = "estimate_eta_weeks"
    /\ ~last.raised
    /\ last.ret.numeric
    /\ Len(transactions) = 2
    /\ transactions[1] # transactions[2]
    /\ goal.present

\* C8: with no goal attached, estimate_eta_weeks returns "No goal set" for
\* every entry sequence, every entry date and every lookback_days.
C8_NoGoalSentinel ==
    (last.op = "estimate_eta_weeks" /\ ~goal.present)
        => last.ret = Sentinel("No goal set")

\* C8 witness: an account without a goal that holds entries was asked.
C8_Witness ==
    /\ last.op = "estimate_eta_weeks"
    /\ ~goal.present
    /\ Len(transactions) = 2
    /\ last.ret.text = "No goal set"

\* C9: with a goal attached and balance() >= goal.target_amount,
\* estimate_eta_weeks returns "Goal reached" whatever the entries' dates, the
\* lookback window and the goal's current_amount.
C9_GoalReachedSentinel ==
    (last.op = "estimate_eta_weeks" /\ goal.present
         /\ balance(transactions) >= goal.target_amount)
        => last.ret = Sentinel("Goal reached")

\* C9 witness: the balance equals a positive target exactly, the goal's
\* current_amount is below the target, and the only entry is out of the
\* lookback window.
C9_Witness ==
    /\ last.op = "estimate_eta_weeks"
    /\ goal.present
    /\ goal.target_amount = 1000
    /\ goal.current_amount = 500
    /\ balance(transactions) = 1000
    /\ Len(transactions) = 1
    /\ transactions[1].date < last.arg.on - last.arg.lookback_days
    /\ last.ret.text = "Goal reached"

\* The indices of the entries dated on or after day `cutoff`.
InWindow(txns, cutoff) == {i \in 1 .. Len(txns) : txns[i].date >= cutoff}

\* The order of C10 for a call that returned: its result is that of the first
\* condition that applies.
C10_OrderWhenReturned ==
    (last.op = "estimate_eta_weeks" /\ ~last.raised)
        => LET win == InWindow(transactions, last.arg.on - last.arg.lookback_days)
               net == AmountTotal(transactions, "income", win)
                          - AmountTotal(transactions, "expense", win)
               idx == 1 .. Len(transactions)
               bal == AmountTotal(transactions, "income", idx)
                          - AmountTotal(transactions, "expense", idx)
               text == last.ret.text
           IN  /\ ~goal.present => text = "No goal set"
               /\ goal.present =>
                    /\ goal.target_amount - bal <= 0 => text = "Goal reached"
                    /\ goal.target_amount - bal > 0 =>
                         /\ idx = {} => text = "Add more data"
                         /\ (idx # {} /\ win = {}) => text = "Add more recent data"
                         /\ (win # {} /\ net <= 0) => text = "No positive trend"
                         /\ (win # {} /\ net > 0) => last.ret.numeric
               /\ (goal.present /\ idx = {} /\ goal.target_amount <= 0)
                      => text = "Goal reached"
               /\ last.ret.numeric
                      => (goal.present /\ goal.target_amount - bal > 0 /\ net > 0)
               /\ last.ret.numeric
                      <=> text \notin {"No goal set", "Goal reached", "Add more data",
                                       "Add more recent data", "No positive trend"}

\* C10: estimate_eta_weeks returns the result of the first condition that
\* applies, in the order: no goal; target - balance <= 0; no entries; no entry
\* dated on or after (day of the call - lookback_days); net of the in-window
\* entries <= 0 (the divisor max(1, lookback_days/7) is positive, so this is
\* avg_per_week <= 0); otherwise a numeric estimate. So an empty account whose goal
\* target is <= 0 yields "Goal reached", and an estimate is numeric only when
\* the target exceeds the balance and the in-window net is > 0. A call that
\* raises returns the result of no condition.
C10_FirstConditionWins ==
    last.op = "estimate_eta_weeks"
        => /\ ~last.raised
           /\ C10_OrderWhenReturned

\* C10 witness: an empty account whose goal target is 0 was told
\* "Goal reached".
C10_Witness ==
    /\ last.op = "estimate_eta_weeks"
    /\ goal.present
    /\ goal.target_amount = 0
    /\ transactions = <<>>
    /\ last.ret.text = "Goal reached"

\* C11 as stated: for every account state and every integer lookback_days,
\* estimate_eta_weeks raises nothing and returns a string.
C11_EtaNeverFails ==
    last.op = "estimate_eta_weeks" => ~last.raised

\* C11, the failing case: with a goal not yet reached and an entry held,
\* estimate_eta_weeks(1000000) raised OverflowError.
C11_Overflow ==
    /\ last.op = "estimate_eta_weeks"
    /\ last.arg.lookback_days = 1000000
    /\ last.raised
    /\ last.exc = "OverflowError"
    /\ goal.present
    /\ Len(transactions) = 1

\* ------------------------------------------------- the projection scenario
\* Amounts, dates, lookbacks and goals of the projection scenario: entries of
\* 250 and 500, one dated 60 days back, a goal of 1250 or 1500.
ProjAmounts == {250, 500}
ProjDates == {-60}
ProjLookbacks == {7, 14, 56}
ProjGoals == {Goal("Trip", 0, 1250), Goal("Trip", 500, 1500)}

InitProjection ==
    /\ transactions = <<>>
    /\ goal \in ProjGoals
    /\ today = 0
    /\ last = Call("init", <<>>, Returned(<<>>))
    /\ GuiIdle

ProjNewTransaction == NewTransactionOf(ProjAmounts, Kinds)
ProjAddTransaction == AddTransactionOf(ProjAmounts, Kinds, ProjDates)
ProjEstimateEtaCall == EstimateEtaCallOf(ProjLookbacks)

NextProjection ==
    \/ ProjNewTransaction
    \/ ProjAddTransaction
    \/ ProjEstimateEtaCall
    \/ Tick

SpecProjection == InitProjection /\ [][NextProjection]_vars

\* C12: a numeric estimate carries weeks = remaining / (net / max(1,
\* lookback_days/7)), rendered to the nearest integer, and months = weeks / 4,
\* rendered to the nearest tenth, where remaining = target - balance over all
\* entries and net is summed over the in-window entries only; with remaining
\* 1000, in-window net 250 and lookback_days 56 it reports 32 weeks and 8.0
\* months. (weeks = num / den with num = remaining * max(7, lookback_days)
\* and den = 7 * net.)
C12_EstimateFigures ==
    (last.op = "estimate_eta_weeks" /\ ~last.raised /\ last.ret.numeric)
        => LET lb == last.arg.lookback_days
               inwin == InWindow(transactions, last.arg.on - lb)
               net == AmountTotal(transactions, "income", inwin)
                          - AmountTotal(transactions, "expense", inwin)
               idx == 1 .. Len(transactions)
               rem == goal.target_amount
                          - (AmountTotal(transactions, "income", idx)
                                 - AmountTotal(transactions, "expense", idx))
               num == rem * Max(7, lb)
               den == 7 * net
               w == last.ret.weeks
               m == last.ret.months10
           IN  /\ den > 0
               /\ 2 * (w * den - num) <= den
               /\ 2 * (num - w * den) <= den
               /\ 2 * (m * 4 * den - 10 * num) <= 4 * den
               /\ 2 * (10 * num - m * 4 * den) <= 4 * den
               /\ (rem = 1000 /\ net = 250 /\ lb = 56)
                      => /\ w = 32
                         /\ m = 80
                         /\ last.ret.text = "~32 weeks (~8.0 months)"

\* C12 witness: remaining 1000, an entry of 250 out of the 56-day window and
\* one of 250 in it, and the estimate reads 32 weeks and 8.0 months.
C12_Witness ==
    /\ last.op = "estimate_eta_weeks"
    /\ ~last.raised
    /\ last.arg.lookback_days = 56
    /\ goal.target_amount = 1500
    /\ Len(transactions) = 2
    /\ transactions[1].date = -60
    /\ transactions[2].date = last.arg.on
    /\ balance(transactions) = 500
    /\ last.ret.text = "~32 weeks (~8.0 months)"

\* ------------------------------------------------- transaction retention
\* budgeter_gui.py keeps the window's transactions as dicts {kind, amount,
\* category, note, timestamp}. A timestamp is modelled by its form and, for
\* the two forms datetime.fromisoformat accepts, its instant in days:
\*   "absent"  no "timestamp" key (or null)    "empty"   the text ""
\*   "zero"    a falsy value that is no text (0, false, [])
\*   "number"  a truthy value that is no text  "text"    text that does not parse
\*   "naive"   ISO-8601 local time             "aware"   ISO-8601 with a UTC offset
MaxRecs == 2

RetentionDays == 7

Stamp(form, at) == [form |-> form, at |-> at]
\* now.isoformat()
Naive(at) == Stamp("naive", at)

TimestampChoices ==
    {Stamp("absent", 0), Stamp("empty", 0), Stamp("zero", 0), Stamp("number", 0),
     Stamp("text", 0), Naive(-10), Naive(-7), Naive(-3), Stamp("aware", -3)}

Tx(kind, amount, timestamp) ==
    [kind |-> kind, amount |-> amount, category |-> "Salary", note |-> "",
     timestamp |-> timestamp]

TxChoices == {Tx("income", 200, ts) : ts \in TimestampChoices}

\* The lists of at most n records over set S.
ListsUpTo(S, n) == UNION {[1 .. k -> S] : k \in 0 .. n}

CompareMsg == "can't compare offset-naive and offset-aware datetimes"
\* An item of the list that is no dict (a number, say) has no get().
GetMsg == "object has no attribute 'get'"

\* `not ts` of ts = tx.get("timestamp").
Falsy(ts) == ts.form \in {"absent", "empty", "zero"}
\* datetime.fromisoformat(ts) returns instead of raising.
Parses(ts) == ts.form \in {"naive", "aware"}

\* Mutant of Restamp: the record is given an instant outside the window.
Restamp_Stale(tx, now) ==
    [tx EXCEPT !.timestamp = Naive(now - RetentionDays - 1)]

\* tx["timestamp"] = now.isoformat()
Restamp(tx, now) == [tx EXCEPT !.timestamp = Naive(now)]

\* The loop of _prune_old_transactions from record i on: the outcome of the
\* call, `pruned` being the list built so far. Comparing an aware datetime
\* with the naive cutoff raises TypeError, outside the try.
RECURSIVE PruneFrom(_, _, _, _)
PruneFrom(txs, i, now, pruned) ==
    IF i > Len(txs) THEN Returned(pruned)
    ELSE LET tx == txs[i]
             ts == tx.timestamp
         IN  IF tx.kind = "nondict" THEN Raised("AttributeError", GetMsg)
             ELSE IF Falsy(ts)
             THEN PruneFrom(txs, i + 1, now, Append(pruned, Restamp(tx, now)))
             ELSE IF ~Parses(ts)
             THEN PruneFrom(txs, i + 1, now, Append(pruned, tx))
             ELSE IF ts.form = "aware" THEN Raised("TypeError", CompareMsg)
             ELSE IF ts.at >= now - RetentionDays
             THEN PruneFrom(txs, i + 1, now, Append(pruned, tx))
             ELSE PruneFrom(txs, i + 1, now, pruned)

\* _prune_old_transactions(transactions) called at instant `now`.
_prune_old_transactions(txs, now) == PruneFrom(txs, 1, now, <<>>)

\* The index of the record at which the loop raises, Len(txs) + 1 if none.
RECURSIVE RaisesAt(_, _, _)
RaisesAt(txs, i, now) ==
    IF i > Len(txs) THEN i
    ELSE IF txs[i].kind = "nondict" \/ txs[i].timestamp.form = "aware" THEN i
    ELSE RaisesAt(txs, i + 1, now)

\* The list object passed to _prune_old_transactions after the call: the
\* dicts reached by the loop with a falsy timestamp were stamped in place.
PrunedInPlace(txs, now) ==
    [i \in 1 .. Len(txs) |->
        IF i < RaisesAt(txs, 1, now) /\ Falsy(txs[i].timestamp)
        THEN Restamp(txs[i], now) ELSE txs[i]]

\* A call of the filter: the list as passed, the instant, whether the list
\* was the filter's own previous output (pass 2), and the outcome.
PruneCall(op, input, now, pass, first, outcome) ==
    [op |-> op, input |-> input, now |-> now, pass |-> pass, first |-> first,
     raised |-> outcome.raised, exc |-> outcome.exc, msg |-> outcome.msg,
     value |-> outcome.value]

InitFilter ==
    /\ transactions = <<>>
    /\ goal = NoGoal
    /\ today = 0
    /\ last = Call("init", <<>>, Returned(<<>>))
    /\ records \in ListsUpTo(TxChoices, MaxRecs)
    /\ disk = <<>>
    /\ gui = <<>>
    /\ out = PruneCall("init", <<>>, 0, 0, <<>>, Returned(<<>>))

\* _prune_old_transactions on the list of records.
PrunePass ==
    /\ out.pass = 0
    /\ records' = PrunedInPlace(records, today)
    /\ out' = PruneCall("prune", records, today, 1, records,
                        _prune_old_transactions(records, today))
    /\ UNCHANGED <<transactions, goal, today, last, disk, gui>>

\* _prune_old_transactions on the list it has just returned, at that instant.
PruneAgain ==
    /\ out.op = "prune"
    /\ out.pass = 1
    /\ ~out.raised
    /\ today = out.now
    /\ records' = PrunedInPlace(out.value, today)
    /\ out' = PruneCall("prune", out.value, today, 2, out.first,
                        _prune_old_transactions(out.value, today))
    /\ UNCHANGED <<transactions, goal, today, last, disk, gui>>

NextFilter ==
    \/ PrunePass
    \/ PruneAgain
    \/ Tick

SpecFilter == InitFilter /\ [][NextFilter]_vars

\* -------------------------------------------------------- snapshot files
\* The data directory, as the calls on it behave:
\*   "ok"        every call succeeds
\*   "noaccess"  the directory cannot be searched: stat and open fail
\*   "blocked"   the directory cannot be created (a file has its name)
\*   "readonly"  files can be read, none can be opened for writing
\*   "full"      a file opens for writing, and is emptied, but the write fails
FsStates == {"ok", "noaccess", "blocked", "readonly", "full"}

\* The content of a snapshot file: absent, no JSON ("garbage"), a JSON value
\* that is no list ("object"), or a list of items.
File(kind, items) == [kind |-> kind, items |-> items]
AbsentFile == File("absent", <<>>)
ListFile(items) == File("list", items)

\* An item of the goals list: a dict with the three fields, a dict with
\* none of them, a dict whose current_amount is no number ("x"), or no dict.
GoalItem(form, name, current_amount, target_amount) ==
    [form |-> form, name |-> name, current_amount |-> current_amount,
     target_amount |-> target_amount]

\* An item of the bills list, with the same forms.
BillItem(form, title, amount) == [form |-> form, title |-> title, amount |-> amount]
\* A bill of the window: {"title": ..., "amount": ...}.
Bill(title, amount) == [title |-> title, amount |-> amount]

\* The content of balance.json: a number, {"balance": number}, an object
\* without the key ("nokey"), {"balance": "abc"} ("badnumber"), a list.
BalanceFile(kind, n) == [kind |-> kind, items |-> <<n>>]

Disk(fs, goals, bills, bal, txs) ==
    [fs |-> fs, GOALS_FILE |-> goals, BILLS_FILE |-> bills,
     BALANCE_FILE |-> bal, TRANSACTIONS_FILE |-> txs]

PermissionMsg == "[Errno 13] Permission denied"
FileExistsMsg == "[Errno 17] File exists"

\* The outcome of a call on the store and the directory after it; `reported`
\* tells whether the call printed a failure.
Stored(outcome, reported, d) == [outcome |-> outcome, reported |-> reported, disk |-> d]

\* path.exists(): stat fails with EACCES, which pathlib does not swallow.
ExistsRaises(d) == d.fs = "noaccess"
\* path.exists() of a file: nothing exists below a name that is no directory.
Exists(d, file) == d.fs # "blocked" /\ file.kind # "absent"

\* The items of a list are all dicts whose numbers convert.
ItemsConvert(items) ==
    \A i \in 1 .. Len(items) : items[i].form \in {"dict", "nofields"}

\* load_goals()
load_goals(d) ==
    LET file == d.GOALS_FILE IN
    IF ExistsRaises(d) THEN Stored(Raised("PermissionError", PermissionMsg), FALSE, d)
    ELSE IF ~Exists(d, file) THEN Stored(Returned(<<>>), FALSE, d)
    ELSE IF file.kind # "list" \/ ~ItemsConvert(file.items)
    THEN Stored(Returned(<<>>), TRUE, d)
    ELSE Stored(Returned([i \in 1 .. Len(file.items) |->
                    IF file.items[i].form = "nofields" THEN Goal("Untitled", 0, 0)
                    ELSE Goal(file.items[i].name, file.items[i].current_amount,
                              file.items[i].target_amount)]), FALSE, d)

\* load_bills()
load_bills(d) ==
    LET file == d.BILLS_FILE IN
    IF ExistsRaises(d) THEN Stored(Raised("PermissionError", PermissionMsg), FALSE, d)
    ELSE IF ~Exists(d, file) THEN Stored(Returned(<<>>), FALSE, d)
    ELSE IF file.kind # "list" \/ ~ItemsConvert(file.items)
    THEN Stored(Returned(<<>>), TRUE, d)
    ELSE Stored(Returned([i \in 1 .. Len(file.items) |->
                    IF file.items[i].form = "nofields" THEN Bill("Untitled bill", 0)
                    ELSE Bill(file.items[i].title, file.items[i].amount)]), FALSE, d)

\* load_balance()
load_balance(d) ==
    LET file == d.BALANCE_FILE IN
    IF ExistsRaises(d) THEN Stored(Raised("PermissionError", PermissionMsg), FALSE, d)
    ELSE IF ~Exists(d, file) THEN Stored(Returned(0), FALSE, d)
    ELSE IF file.kind \in {"number", "object"} THEN Stored(Returned(file.items[1]), FALSE, d)
    ELSE IF file.kind = "nokey" THEN Stored(Returned(0), FALSE, d)
    ELSE Stored(Returned(0), TRUE, d)

\* The writing half of a save, inside its try: open(path, "w") and json.dump.
\* `put` is the directory with the new content in place.
WriteFile(d, put, emptied) ==
    IF d.fs \in {"noaccess", "readonly"} THEN Stored(Returned(<<>>), TRUE, d)
    ELSE IF d.fs = "full" THEN Stored(Returned(<<>>), TRUE, emptied)
    ELSE Stored(Returned(<<>>), FALSE, put)

\* save_goals(goals): mkdir comes before the try.
save_goals(d, goals) ==
    LET data == [i \in 1 .. Len(goals) |->
                    GoalItem("dict", goals[i].name, goals[i].current_amount,
                             goals[i].target_amount)]
    IN  IF d.fs = "blocked"
        THEN Stored(Raised("FileExistsError", FileExistsMsg), FALSE, d)
        ELSE WriteFile(d, [d EXCEPT !.GOALS_FILE = ListFile(data)],
                          [d EXCEPT !.GOALS_FILE = File("garbage", <<>>)])

\* save_bills(bills): mkdir comes before the try.
save_bills(d, bills) ==
    LET data == [i \in 1 .. Len(bills) |->
                    BillItem("dict", bills[i].title, bills[i].amount)]
    IN  IF d.fs = "blocked"
        THEN Stored(Raised("FileExistsError", FileExistsMsg), FALSE, d)
        ELSE WriteFile(d, [d EXCEPT !.BILLS_FILE = ListFile(data)],
                          [d EXCEPT !.BILLS_FILE = File("garbage", <<>>)])

\* save_transactions(transactions): mkdir is inside the try.
save_transactions(d, txs) ==
    IF d.fs = "blocked" THEN Stored(Returned(<<>>), TRUE, d)
    ELSE WriteFile(d, [d EXCEPT !.TRANSACTIONS_FILE = ListFile(txs)],
                      [d EXCEPT !.TRANSACTIONS_FILE = File("garbage", <<>>)])

\* save_balance(balance): mkdir is inside the try.
save_balance(d, bal) ==
    IF d.fs = "blocked" THEN Stored(Returned(<<>>), TRUE, d)
    ELSE WriteFile(d, [d EXCEPT !.BALANCE_FILE = BalanceFile("object", bal)],
                      [d EXCEPT !.BALANCE_FILE = File("garbage", <<>>)])

\* load_transactions() at instant `now`: the list is pruned, and saved back
\* when the pruning shortened it; any exception gives the empty list.
load_transactions(d, now) ==
    LET file == d.TRANSACTIONS_FILE IN
    IF ExistsRaises(d) THEN Stored(Raised("PermissionError", PermissionMsg), FALSE, d)
    ELSE IF ~Exists(d, file) THEN Stored(Returned(<<>>), FALSE, d)
    ELSE IF file.kind = "garbage" THEN Stored(Returned(<<>>), TRUE, d)
    ELSE IF file.kind # "list" THEN Stored(Returned(<<>>), FALSE, d)
    ELSE LET txs == _prune_old_transactions(file.items, now) IN
         IF txs.raised THEN Stored(Returned(<<>>), TRUE, d)
         ELSE IF Len(txs.value) # Len(file.items)
         THEN LET saved == save_transactions(d, txs.value)
              IN  Stored(Returned(txs.value), saved.reported, saved.disk)
         ELSE Stored(Returned(txs.value), FALSE, d)

\* ------------------------------------------------------------ the window
\* A Goal object of the running window: `id` stands for its identity (what
\* Python's `is` compares), the three fields are what == compares.
GoalObject(id, g) ==
    [id |-> id, name |-> g.name, current_amount |-> g.current_amount,
     target_amount |-> g.target_amount]

\* Goal.__eq__ of the dataclass: the fields are equal.
SameGoal(a, b) ==
    /\ a.name = b.name
    /\ a.current_amount = b.current_amount
    /\ a.target_amount = b.target_amount

\* BudgeterWindow: `gui` holds whether the window is open, self.goals (a
\* list of Goal objects), self.bills, self.balance and the identity of
\* self.current_main_goal (0 for None); `records` is self.transactions.
Window(open, goals, bills, bal, main) ==
    [open |-> open, goals |-> goals, bills |-> bills, balance |-> bal, main |-> main]

\* The position in self.goals of the object self.current_main_goal, 0 when
\* it is None or an object that is not in the list.
MainPosition(w) ==
    IF \E i \in 1 .. Len(w.goals) : w.goals[i].id = w.main
    THEN CHOOSE i \in 1 .. Len(w.goals) : w.goals[i].id = w.main
    ELSE 0

\* No window: the process is not running.
Closed == Window(FALSE, <<>>, <<>>, 0, 0)

\* What a handler of the window did: what the user gave it (the amount of
\* the income/expense dialog, the new balance, the position of the goal row
\* clicked; 0 when nothing), the instant, the transactions file, self.transactions and
\* self.balance as they were before, the position of the main goal before
\* (for start-up: when the window was last closed), the lists it handed to
\* save_transactions, in order, and the exception it let through, if any.
Handled(op, input, now, before, held, saves, outcome) ==
    [op |-> op, input |-> input, now |-> now, before |-> before, held |-> held,
     balance |-> gui.balance,
     main |-> IF gui.open THEN MainPosition(gui) ELSE out.main,
     saves |-> saves, raised |-> outcome.raised, exc |-> outcome.exc]

\* The items a transactions file is found with at start-up: records of this
\* or another writer, and a value that is no record.
AppItems ==
    {Tx("income", 200, Naive(-7)), Tx("income", 200, Naive(-3)),
     Tx("income", 200, Stamp("text", 0)), Tx("income", 200, Stamp("aware", -3)),
     Tx("nondict", 0, Stamp("absent", 0))}

AppFiles ==
    {AbsentFile, File("garbage", <<>>), File("object", <<>>)}
        \cup {ListFile(items) : items \in ListsUpTo(AppItems, MaxRecs)}

\* Amounts of the income/expense dialog.
DialogAmounts == {0, 200}

InitApp ==
    /\ transactions = <<>>
    /\ goal = NoGoal
    /\ today = 0
    /\ last = Call("init", <<>>, Returned(<<>>))
    /\ records = <<>>
    /\ gui = Closed
    /\ \E file \in AppFiles :
           disk = Disk("ok", ListFile(<<GoalItem("dict", "Trip", 0, 1000),
                                        GoalItem("dict", "Car", 1500, 1000)>>),
                       ListFile(<<BillItem("dict", "Rent", 200)>>),
                       BalanceFile("object", 200), file)
    /\ out = [op |-> "init", input |-> 0, now |-> 0, before |-> AbsentFile,
              held |-> <<>>, balance |-> 0, main |-> 0, saves |-> <<>>,
              raised |-> FALSE, exc |-> ""]

\* The Goal objects load_goals constructs, one per item.
Objects(loaded) == [i \in 1 .. Len(loaded) |-> GoalObject(i, loaded[i])]

\* Mutant of MainAtStartup: the last goal of the list is made the main goal.
MainAtStartup_Last(goals) == IF goals = <<>> THEN 0 ELSE goals[Len(goals)].id

\* if self.goals: self.set_main_goal(self.goals[0])
MainAtStartup(goals) == IF goals = <<>> THEN 0 ELSE goals[1].id

\* BudgeterWindow.__init__: the four loads, the first goal made the main
\* goal, then _refresh_transactions_table (prune, save).
Startup ==
    /\ ~gui.open
    /\ LET goals == load_goals(disk)
           bal == load_balance(disk)
           txs == load_transactions(disk, today)
           bills == load_bills(txs.disk)
           before == disk.TRANSACTIONS_FILE
       IN  IF goals.outcome.raised
           THEN /\ out' = Handled("startup", 0, today, before, records, <<>>, goals.outcome)
                /\ UNCHANGED <<records, disk, gui>>
           ELSE LET shown == _prune_old_transactions(txs.outcome.value, today)
                    saved == save_transactions(txs.disk, shown.value)
                    first == _prune_old_transactions(before.items, today)
                    back == IF /\ Exists(disk, before)
                               /\ before.kind = "list"
                               /\ ~first.raised
                               /\ Len(first.value) # Len(before.items)
                            THEN <<first.value>> ELSE <<>>
                IN  /\ records' = shown.value
                    /\ disk' = saved.disk
                    /\ gui' = Window(TRUE, Objects(goals.outcome.value),
                                     bills.outcome.value, bal.outcome.value,
                                     MainAtStartup(Objects(goals.outcome.value)))
                    /\ out' = Handled("startup", 0, today, before, records,
                                      back \o <<shown.value>>, Returned(<<>>))
    /\ UNCHANGED <<transactions, goal, today, last>>

\* Mutant of Accepted: any amount is taken.
Accepted_Any(amount) == TRUE

\* if tx["amount"] <= 0: return
Accepted(amount) == amount > 0

\* _add_income / _add_expense with the dialog accepted: the record is stamped
\* and appended, the balance moved and saved, the list saved, then the table
\* refreshed (prune, save).
AddRecord(op, kind, sign) ==
    /\ gui.open
    /\ Len(records) < MaxRecs
    /\ \E amount \in DialogAmounts :
           IF ~Accepted(amount)
           THEN /\ out' = Handled(op, amount, today, disk.TRANSACTIONS_FILE, records,
                                  <<>>, Returned(<<>>))
                /\ UNCHANGED <<records, disk, gui>>
           ELSE LET appended == Append(records, Tx(kind, amount, Naive(today)))
                    bal == gui.balance + sign * amount
                    d1 == save_balance(disk, bal).disk
                    d2 == save_transactions(d1, appended).disk
                    shown == _prune_old_transactions(appended, today)
                    d3 == save_transactions(d2, shown.value).disk
                IN  /\ records' = shown.value
                    /\ gui' = [gui EXCEPT !.balance = bal]
                    /\ disk' = d3
                    /\ out' = Handled(op, amount, today, disk.TRANSACTIONS_FILE,
                                      records, <<appended, shown.value>>,
                                      Returned(<<>>))
    /\ UNCHANGED <<transactions, goal, today, last>>

AddIncome == AddRecord("add_income", "income", 1)
AddExpense == AddRecord("add_expense", "expense", -1)

\* Mutant of Cleared: self.current_main_goal is left as it is.
Cleared_KeepsMain(w) == Window(TRUE, <<>>, <<>>, 0, w.main)

\* The window after the clearing assignments of _reset_all_data.
Cleared(w) == Window(TRUE, <<>>, <<>>, 0, 0)

\* _reset_all_data: everything cleared in memory, the four snapshots saved,
\* the table refreshed (prune, save) and the balance label updated (save).
ResetAllData ==
    /\ gui.open
    /\ LET goals == save_goals(disk, <<>>)
           bills == save_bills(goals.disk, <<>>)
           d3 == save_transactions(bills.disk, <<>>).disk
           d4 == save_balance(d3, 0).disk
           d5 == save_transactions(d4, <<>>).disk
           d6 == save_balance(d5, 0).disk
           before == disk.TRANSACTIONS_FILE
       IN  /\ records' = <<>>
           /\ gui' = Cleared(gui)
           /\ IF goals.outcome.raised
              THEN /\ disk' = goals.disk
                   /\ out' = Handled("reset", 0, today, before, records, <<>>, goals.outcome)
              ELSE IF bills.outcome.raised
              THEN /\ disk' = bills.disk
                   /\ out' = Handled("reset", 0, today, before, records, <<>>, bills.outcome)
              ELSE /\ disk' = d6
                   /\ out' = Handled("reset", 0, today, before, records, << <<>>, <<>> >>,
                                     Returned(<<>>))
    /\ UNCHANGED <<transactions, goal, today, last>>

\* closeEvent: goals, bills, balance and transactions saved as they are; the
\* window is gone afterwards.
CloseEvent ==
    /\ gui.open
    /\ LET goals == save_goals(disk, gui.goals)
           bills == save_bills(goals.disk, gui.bills)
           d3 == save_balance(bills.disk, gui.balance).disk
           d4 == save_transactions(d3, records).disk
           before == disk.TRANSACTIONS_FILE
       IN  IF goals.outcome.raised
           THEN /\ disk' = goals.disk
                /\ out' = Handled("close", 0, today, before, records, <<>>, goals.outcome)
                /\ UNCHANGED <<records, gui>>
           ELSE IF bills.outcome.raised
           THEN /\ disk' = bills.disk
                /\ out' = Handled("close", 0, today, before, records, <<>>, bills.outcome)
                /\ UNCHANGED <<records, gui>>
           ELSE /\ disk' = d4
                /\ records' = <<>>
                /\ gui' = Closed
                /\ out' = Handled("close", 0, today, before, records, <<records>>,
                                  Returned(<<>>))
    /\ UNCHANGED <<transactions, goal, today, last>>

\* _edit_balance with the dialog accepted: the balance is set and saved.
BalanceEdits == {-200, 500}

EditBalance ==
    /\ gui.open
    /\ \E value \in BalanceEdits :
           /\ gui' = [gui EXCEPT !.balance = value]
           /\ disk' = save_balance(disk, value).disk
           /\ out' = Handled("edit_balance", value, today, disk.TRANSACTIONS_FILE,
                             records, <<>>, Returned(<<>>))
    /\ UNCHANGED <<transactions, goal, today, last, records>>

\* A click on the row of a goal: set_main_goal(row.goal).
SetMainGoal ==
    /\ gui.open
    /\ \E i \in 1 .. Len(gui.goals) :
           /\ gui' = [gui EXCEPT !.main = gui.goals[i].id]
           /\ out' = Handled("set_main_goal", i, today, disk.TRANSACTIONS_FILE,
                             records, <<>>, Returned(<<>>))
    /\ UNCHANGED <<transactions, goal, today, last, records, disk>>

NextApp ==
    \/ Startup
    \/ AddIncome
    \/ AddExpense
    \/ EditBalance
    \/ SetMainGoal
    \/ ResetAllData
    \/ CloseEvent
    \/ Tick

SpecApp == InitApp /\ [][NextApp]_vars

\* ------------------------------------------------- the store on its own
\* The load and save functions called one at a time on a data directory in
\* any condition, one snapshot file at a time holding something.
StoreGoalsFiles ==
    {AbsentFile, File("garbage", <<>>), File("object", <<>>),
     ListFile(<<GoalItem("dict", "Trip", 0, 1000)>>),
     ListFile(<<GoalItem("nofields", "", 0, 0)>>),
     ListFile(<<GoalItem("dict", "Debt", 0, -5)>>),
     ListFile(<<GoalItem("dict", "Trip", 0, 1000), GoalItem("badnumber", "Car", 0, 500)>>),
     ListFile(<<GoalItem("dict", "Trip", 0, 1000), GoalItem("nondict", "", 0, 0)>>)}

StoreBillsFiles ==
    {AbsentFile, File("garbage", <<>>), File("object", <<>>),
     ListFile(<<BillItem("dict", "Rent", 200)>>),
     ListFile(<<BillItem("nofields", "", 0)>>),
     ListFile(<<BillItem("dict", "Rent", 200), BillItem("badnumber", "Gym", 0)>>)}

StoreBalanceFiles ==
    {AbsentFile, File("garbage", <<>>), BalanceFile("number", 5),
     BalanceFile("object", 7), BalanceFile("nokey", 0),
     BalanceFile("badnumber", 0), BalanceFile("list", 0)}

StoreDisks ==
    {Disk("blocked", AbsentFile, AbsentFile, AbsentFile, AbsentFile)}
    \cup UNION {
        {Disk(fs, f, AbsentFile, AbsentFile, AbsentFile) : f \in StoreGoalsFiles}
        \cup {Disk(fs, AbsentFile, f, AbsentFile, AbsentFile) : f \in StoreBillsFiles}
        \cup {Disk(fs, AbsentFile, AbsentFile, f, AbsentFile) : f \in StoreBalanceFiles}
        \cup {Disk(fs, AbsentFile, AbsentFile, AbsentFile, f) : f \in AppFiles}
        : fs \in FsStates \ {"blocked"}}

\* The arguments of the saves.
SavedGoals == {<<>>, <<Goal("Trip", 0, 1000)>>}
SavedBills == {<<>>, <<Bill("Rent", 200)>>}
SavedBalances == {0, 200}
SavedTransactions == {<<>>, <<Tx("income", 200, Naive(0))>>}

\* A call on the store: its argument (<<>> for a load), the file it is about
\* as it was before, the condition of the directory, and the outcome.
StoreCall(op, arg, file, now, result) ==
    [op |-> op, arg |-> arg, file |-> file, fs |-> disk.fs, now |-> now,
     raised |-> result.outcome.raised, exc |-> result.outcome.exc,
     value |-> result.outcome.value, reported |-> result.reported]

InitStore ==
    /\ transactions = <<>>
    /\ goal = NoGoal
    /\ today = 0
    /\ last = Call("init", <<>>, Returned(<<>>))
    /\ records = <<>>
    /\ gui = <<>>
    /\ disk \in StoreDisks
    /\ out = [op |-> "init", arg |-> <<>>, file |-> AbsentFile, fs |-> "ok", now |-> 0,
              raised |-> FALSE, exc |-> "", value |-> <<>>, reported |-> FALSE]

\* A call of the store leaves everything but the directory alone.
StoreStep(op, arg, file, result) ==
    /\ out' = StoreCall(op, arg, file, today, result)
    /\ disk' = result.disk
    /\ UNCHANGED <<transactions, goal, today, last, records, gui>>

LoadGoals == StoreStep("load_goals", <<>>, disk.GOALS_FILE, load_goals(disk))
LoadBills == StoreStep("load_bills", <<>>, disk.BILLS_FILE, load_bills(disk))
LoadBalance == StoreStep("load_balance", <<>>, disk.BALANCE_FILE, load_balance(disk))
LoadTransactions ==
    StoreStep("load_transactions", <<>>, disk.TRANSACTIONS_FILE,
              load_transactions(disk, today))

SaveGoals ==
    \E goals \in SavedGoals :
        StoreStep("save_goals", goals, disk.GOALS_FILE, save_goals(disk, goals))
SaveBills ==
    \E bills \in SavedBills :
        StoreStep("save_bills", bills, disk.BILLS_FILE, save_bills(disk, bills))
SaveBalance ==
    \E bal \in SavedBalances :
        StoreStep("save_balance", bal, disk.BALANCE_FILE, save_balance(disk, bal))
SaveTransactions ==
    \E txs \in SavedTransactions :
        StoreStep("save_transactions", txs, disk.TRANSACTIONS_FILE,
                  save_transactions(disk, txs))

NextStore ==
    \/ LoadGoals
    \/ LoadBills
    \/ LoadBalance
    \/ LoadTransactions
    \/ SaveGoals
    \/ SaveBills
    \/ SaveBalance
    \/ SaveTransactions
    \/ Tick

SpecStore == InitStore /\ [][NextStore]_vars

\* The retention window as the contract states it: the timestamp parses and
\* lies more than 7 days before the filtering instant.
Aged(tx, now) ==
    /\ tx.timestamp.form \in {"naive", "aware"}
    /\ tx.timestamp.at < now - 7

\* A record as it leaves the filter: one without a usable timestamp carries
\* the filtering instant (C14), any other is as it came.
AsKept(tx, now) ==
    IF tx.timestamp.form \in {"absent", "empty", "zero"}
    THEN [tx EXCEPT !.timestamp = [form |-> "naive", at |-> now]]
    ELSE tx

\* The input minus its aged records, in the input's order.
Unaged(input, now) ==
    LET kept == SelectSeq(input, LAMBDA tx : ~Aged(tx, now))
    IN  [j \in 1 .. Len(kept) |-> AsKept(kept[j], now)]

\* Lemma for C13: a pass that returns, returns the input minus its aged
\* records, in the input's order.
C13_OutputWhenReturned ==
    (out.op = "prune" /\ ~out.raised) => out.value = Unaged(out.input, out.now)

\* C13: for every input collection and filtering instant, the output of the
\* retention filter is the input with the records whose timestamp parses and
\* is older than now - 7 days removed, the others kept in their order; a
\* record exactly 7 days old is kept.
C13_FilterOutput ==
    out.op = "prune" =>
        /\ ~out.raised
        /\ C13_OutputWhenReturned

\* A pass over a 10 days old, an exactly 7 days old and no other record
\* returned, the first record dropped and the second kept.
C13_Witness ==
    /\ out.op = "prune"
    /\ out.pass = 1
    /\ ~out.raised
    /\ out.now = 0
    /\ Len(out.input) = 2
    /\ out.input[1].timestamp = [form |-> "naive", at |-> -10]
    /\ out.input[2].timestamp = [form |-> "naive", at |-> -7]
    /\ out.value = <<out.input[2]>>

\* A pass over a record dated three days ago with a UTC offset raised.
C13_AwareRaises ==
    /\ out.op = "prune"
    /\ out.raised
    /\ out.exc = "TypeError"
    /\ Len(out.input) = 1
    /\ out.input[1].timestamp = [form |-> "aware", at |-> -3]

\* The positions of the input whose timestamp is absent or empty.
MissingAt(input) ==
    {i \in 1 .. Len(input) : input[i].timestamp.form \in {"absent", "empty"}}

\* Lemma for C14: a pass that returns keeps every record that came with a
\* missing timestamp, stamped with the filtering instant and otherwise as it
\* was, in the output and in the list that was passed.
C14_StampedWhenReturned ==
    (out.op = "prune" /\ ~out.raised) =>
        \A i \in MissingAt(out.input) :
            LET stamped == [out.input[i] EXCEPT
                               !.timestamp = [form |-> "naive", at |-> out.now]]
            IN  /\ \E j \in 1 .. Len(out.value) : out.value[j] = stamped
                /\ records[i] = stamped

\* C14: every record that enters the filter with a missing (absent or empty)
\* timestamp is kept and after that pass carries the filtering instant as its
\* timestamp, no other field changed.
C14_MissingKeptAndStamped ==
    (out.op = "prune" /\ MissingAt(out.input) # {}) =>
        /\ ~out.raised
        /\ C14_StampedWhenReturned

\* A pass over one record without a timestamp returned it stamped.
C14_Witness ==
    /\ out.op = "prune"
    /\ out.pass = 1
    /\ ~out.raised
    /\ Len(out.input) = 1
    /\ out.input[1].timestamp.form = "absent"
    /\ out.value = <<[out.input[1] EXCEPT
                         !.timestamp = [form |-> "naive", at |-> out.now]]>>

\* A pass over a record without a timestamp followed by one with a UTC
\* offset raised, the first record already stamped in the list passed.
C14_StampedThenRaised ==
    /\ out.op = "prune"
    /\ out.raised
    /\ Len(out.input) = 2
    /\ out.input[1].timestamp.form = "empty"
    /\ out.input[2].timestamp.form = "aware"
    /\ records[1].timestamp = [form |-> "naive", at |-> out.now]

\* The positions of the input whose timestamp is present and does not parse
\* as ISO-8601: text that is no date, or a value that is no text.
MalformedAt(input) ==
    {i \in 1 .. Len(input) : input[i].timestamp.form \in {"text", "number", "zero"}}

\* Lemma for C15: a pass that returns keeps every record whose timestamp is
\* unparsable text or a truthy value that is no text, unmodified.
C15_KeptWhenReturned ==
    (out.op = "prune" /\ ~out.raised) =>
        \A i \in MalformedAt(out.input) :
            out.input[i].timestamp.form # "zero" =>
                /\ \E j \in 1 .. Len(out.value) : out.value[j] = out.input[i]
                /\ records[i] = out.input[i]

\* C15: every record whose timestamp is present but does not parse as
\* ISO-8601 is kept with all its fields, the malformed timestamp included,
\* unmodified, on the first pass and on every later one.
C15_MalformedKeptUnmodified ==
    (out.op = "prune" /\ MalformedAt(out.input) # {}) =>
        /\ ~out.raised
        /\ \A i \in MalformedAt(out.input) :
               /\ \E j \in 1 .. Len(out.value) : out.value[j] = out.input[i]
               /\ records[i] = out.input[i]

\* A second pass over a record with unparsable text as its timestamp
\* returned it as it was.
C15_Witness ==
    /\ out.op = "prune"
    /\ out.pass = 2
    /\ ~out.raised
    /\ Len(out.first) = 1
    /\ out.first[1].timestamp.form = "text"
    /\ out.value = out.first

\* A pass over a record with unparsable text followed by one with a UTC
\* offset raised.
C15_MalformedThenRaised ==
    /\ out.op = "prune"
    /\ out.raised
    /\ Len(out.input) = 2
    /\ out.input[1].timestamp.form = "text"
    /\ out.input[2].timestamp.form = "aware"

\* C16: the retention filter is idempotent: applied to its own output, at
\* the same filtering instant, it returns that output again, same records,
\* same order, same timestamps.
C16_Idempotent ==
    (out.op = "prune" /\ out.pass = 2) =>
        /\ ~out.raised
        /\ out.value = out.input
        /\ records = out.input

\* A second pass over the output of a pass that dropped an aged record and
\* stamped a record without timestamp.
C16_Witness ==
    /\ out.op = "prune"
    /\ out.pass = 2
    /\ Len(out.first) = 2
    /\ out.first[1].timestamp = [form |-> "naive", at |-> -10]
    /\ out.first[2].timestamp.form = "absent"
    /\ Len(out.value) = 1
    /\ out.value[1].timestamp = [form |-> "naive", at |-> out.now]

\* The records a transactions file holds: the dicts of its list.
PersistedIn(file) ==
    IF file.kind # "list" THEN {}
    ELSE {file.items[i] : i \in {j \in 1 .. Len(file.items) :
                                    file.items[j].kind # "nondict"}}

\* Record tx is in the list, as it was or with the instant `now` filled in
\* for a timestamp it lacked.
HeldIn(tx, list, now) ==
    \E j \in 1 .. Len(list) :
        \/ list[j] = tx
        \/ /\ tx.timestamp.form \in {"absent", "empty"}
           /\ list[j] = [tx EXCEPT !.timestamp = [form |-> "naive", at |-> now]]

\* In this step every persisted record stays in the snapshot or in the
\* window's list, unless it aged out or the step is a reset.
KeptOrAgedOrReset ==
    \A tx \in PersistedIn(disk.TRANSACTIONS_FILE) :
        \/ tx \in PersistedIn(disk'.TRANSACTIONS_FILE)
        \/ HeldIn(tx, records', today')
        \/ Aged(tx, today')
        \/ out'.op = "reset"

\* The file is a list of records none of which makes the filter fail.
Loadable(file) ==
    /\ file.kind = "list"
    /\ \A i \in 1 .. Len(file.items) :
           /\ file.items[i].kind # "nondict"
           /\ file.items[i].timestamp.form # "aware"

\* Lemma for C17: while the snapshot is a list the filter accepts, a
\* persisted record goes away only by aging or by a reset.
C17_KeptWhenLoadable ==
    [][Loadable(disk.TRANSACTIONS_FILE) => KeptOrAgedOrReset]_vars

\* C17: across start-ups, additions, refreshes, closes and resets, a record
\* once persisted disappears from the window's list and from the snapshot
\* only through a reset or because its timestamp parsed and fell out of the
\* 7-day window; a failed or partially malformed load followed by the next
\* save does not remove it.
C17_RemovedOnlyByResetOrAging == [][KeptOrAgedOrReset]_vars

\* A start-up found a three days old record next to one with a UTC offset
\* in the snapshot and left the snapshot and the window's list empty.
C17_LostAtStartup ==
    /\ out.op = "startup"
    /\ ~out.raised
    /\ out.before.kind = "list"
    /\ Len(out.before.items) = 2
    /\ out.before.items[1].timestamp = [form |-> "naive", at |-> -3]
    /\ out.before.items[2].timestamp.form = "aware"
    /\ records = <<>>
    /\ disk.TRANSACTIONS_FILE = [kind |-> "list", items |-> <<>>]

\* The handlers that persist or display the transactions.
PersistingOps == {"startup", "add_income", "add_expense", "reset", "close"}

\* Lemma for C18: what the start-up hands to save_transactions is pruned.
C18_StartupSavesPruned ==
    out.op = "startup" =>
        \A k \in 1 .. Len(out.saves) : \A i \in 1 .. Len(out.saves[k]) :
            ~Aged(out.saves[k][i], out.now)

\* C18: whenever the transactions are persisted (start-up, add income, add
\* expense, close), the retention filter has been applied for the current
\* instant: no list handed to save_transactions, and so no snapshot, holds a
\* record whose timestamp parses and is older than 7 days at that time.
C18_SavedListsArePruned ==
    out.op \in PersistingOps =>
        \A k \in 1 .. Len(out.saves) : \A i \in 1 .. Len(out.saves[k]) :
            ~Aged(out.saves[k][i], out.now)

\* The window closed while holding a record that had aged since the last
\* refresh, and the snapshot holds it.
C18_AgedSavedOnClose ==
    /\ out.op = "close"
    /\ Len(out.saves) = 1
    /\ \E i \in 1 .. Len(out.saves[1]) : Aged(out.saves[1][i], out.now)
    /\ disk.TRANSACTIONS_FILE = [kind |-> "list", items |-> out.saves[1]]

LoadOps == {"load_goals", "load_bills", "load_transactions", "load_balance"}
SaveOps == {"save_goals", "save_bills", "save_transactions", "save_balance"}

\* What a load gives for nothing: the empty collection, 0 for the balance.
EmptyOf(op) == IF op = "load_balance" THEN 0 ELSE <<>>

\* The snapshot a load found is malformed: no JSON, the wrong shape, or a
\* list with an item that is no dict or has a field that is no number.
MalformedFor(op, file) ==
    IF op = "load_balance" THEN file.kind \in {"garbage", "badnumber", "list"}
    ELSE \/ file.kind \in {"garbage", "object"}
         \/ /\ file.kind = "list"
            /\ \E i \in 1 .. Len(file.items) :
                   IF op = "load_transactions" THEN file.items[i].kind = "nondict"
                   ELSE file.items[i].form \in {"badnumber", "nondict"}

\* A load returned, with the empty collection for an absent or malformed
\* snapshot, and for goals and bills with nothing or one entry per item.
LoadedWholeOrEmpty ==
    /\ ~out.raised
    /\ (out.file.kind = "absent" \/ MalformedFor(out.op, out.file))
           => out.value = EmptyOf(out.op)
    /\ out.op \in {"load_goals", "load_bills"}
           => (out.value = <<>> \/ Len(out.value) = Len(out.file.items))

\* Lemma for C19: with a data directory that can be searched, every load
\* returns, the empty collection for an absent or malformed snapshot.
C19_LoadsWhenSearchable ==
    (out.op \in LoadOps /\ out.fs # "noaccess") => LoadedWholeOrEmpty

\* C19: every load returns normally in every case, the empty collection (0
\* for the balance) for an absent snapshot and for a malformed one as a
\* whole; no load raises to its caller or returns a partial collection.
C19_LoadsAlwaysReturn == out.op \in LoadOps => LoadedWholeOrEmpty

\* load_goals on a list whose second item does not convert returned the
\* empty list and reported the failure.
C19_Witness ==
    /\ out.op = "load_goals"
    /\ out.file.kind = "list"
    /\ Len(out.file.items) = 2
    /\ out.file.items[2].form = "badnumber"
    /\ ~out.raised
    /\ out.reported
    /\ out.value = <<>>

\* load_transactions raised PermissionError on a directory it cannot search.
C19_ExistsRaises ==
    /\ out.op = "load_transactions"
    /\ out.fs = "noaccess"
    /\ out.raised
    /\ out.exc = "PermissionError"

\* Lemma for C20: save_transactions and save_balance return whatever the
\* directory does, and report what failed.
C20_GuardedSavesReturn ==
    out.op \in {"save_transactions", "save_balance"} =>
        /\ ~out.raised
        /\ out.reported <=> out.fs # "ok"

\* C20: every save returns normally even when persistence fails at any step
\* (creating the data directory, opening the file, writing): the failure is
\* reported and never raised to the caller.
C20_SavesAlwaysReturn ==
    out.op \in SaveOps =>
        /\ ~out.raised
        /\ out.fs # "ok" => out.reported

\* save_transactions reported a failed write and returned.
C20_Witness ==
    /\ out.op = "save_transactions"
    /\ out.fs = "full"
    /\ ~out.raised
    /\ out.reported

\* save_goals raised FileExistsError where the data directory cannot be made.
C20_MkdirRaises ==
    /\ out.op = "save_goals"
    /\ out.fs = "blocked"
    /\ out.raised
    /\ out.exc = "FileExistsError"

\* ------------------------------------------------------------ round trips
\* A save followed at once by the load of the same snapshot.
TripGoals ==
    {<<Goal("Trip", 0, 1000), Goal("Car", 1500, 1000)>>,
     <<Goal("Trip", 0, 1000), Goal("Trip", 0, 1000)>>}
TripBills == {<<>>, <<Bill("Rent", 200), Bill("Gym", 30)>>}
TripBalances == {-200, 200}
TripTimestamps == {Stamp("absent", 0), Naive(-10), Stamp("aware", -3)}
TripTransactions ==
    ListsUpTo({Tx("expense", 200, ts) : ts \in TripTimestamps}, MaxRecs)

\* A save and the load after it: what was saved, whether the save went
\* through, and the outcome of the load (of the save, if that one raised).
RoundTrip(op, arg, now, saved, loaded) ==
    [op |-> op, arg |-> arg, now |-> now,
     saved |-> ~saved.outcome.raised /\ ~saved.reported,
     raised |-> saved.outcome.raised \/ loaded.outcome.raised,
     value |-> loaded.outcome.value]

InitRoundTrip ==
    /\ transactions = <<>>
    /\ goal = NoGoal
    /\ today = 0
    /\ last = Call("init", <<>>, Returned(<<>>))
    /\ records = <<>>
    /\ gui = <<>>
    /\ disk \in {Disk(fs, AbsentFile, AbsentFile, AbsentFile, AbsentFile) :
                    fs \in {"ok", "full", "blocked"}}
    /\ out = [op |-> "init", arg |-> <<>>, now |-> 0, saved |-> FALSE,
              raised |-> FALSE, value |-> <<>>]

\* save(arg) and then load(), the load left out when the save raised.
RoundTripStep(op, arg, saved, loaded) ==
    /\ out' = RoundTrip(op, arg, today, saved, loaded)
    /\ disk' = IF saved.outcome.raised THEN saved.disk ELSE loaded.disk
    /\ UNCHANGED <<transactions, goal, today, last, records, gui>>

RoundTripGoals ==
    \E goals \in TripGoals :
        LET saved == save_goals(disk, goals)
        IN  RoundTripStep("goals", goals, saved, load_goals(saved.disk))

RoundTripBills ==
    \E bills \in TripBills :
        LET saved == save_bills(disk, bills)
        IN  RoundTripStep("bills", bills, saved, load_bills(saved.disk))

RoundTripBalance ==
    \E bal \in TripBalances :
        LET saved == save_balance(disk, bal)
        IN  RoundTripStep("balance", bal, saved, load_balance(saved.disk))

RoundTripTransactions ==
    \E txs \in TripTransactions :
        LET saved == save_transactions(disk, txs)
        IN  RoundTripStep("transactions", txs, saved,
                          load_transactions(saved.disk, today))

NextRoundTrip ==
    \/ RoundTripGoals
    \/ RoundTripBills
    \/ RoundTripBalance
    \/ RoundTripTransactions
    \/ Tick

SpecRoundTrip == InitRoundTrip /\ [][NextRoundTrip]_vars

\* Lemma for C21: goals, bills and the balance come back as they were saved,
\* and transactions come back as the filter returns them when it returns.
C21_RoundTripWhenFilterReturns ==
    out.saved =>
        /\ ~out.raised
        /\ out.op \in {"goals", "bills", "balance"} => out.value = out.arg
        /\ out.op = "transactions" =>
               LET pruned == _prune_old_transactions(out.arg, out.now)
               IN  ~pruned.raised => out.value = pruned.value

\* C21: a successful save followed by a load returns the same goals (name,
\* current_amount, target_amount), bills (title, amount) and balance, in the
\* same order, and for transactions exactly the retention filter applied to
\* the saved list: the list minus its aged records.
C21_RoundTrip ==
    out.saved =>
        /\ ~out.raised
        /\ out.op \in {"goals", "bills", "balance"} => out.value = out.arg
        /\ out.op = "transactions" => out.value = Unaged(out.arg, out.now)

\* Two goals of the same name and amounts came back, both and in order.
C21_Witness ==
    /\ out.op = "goals"
    /\ out.saved
    /\ Len(out.arg) = 2
    /\ out.arg[1] = out.arg[2]
    /\ out.value = out.arg

\* A list with a record of three days ago that carries a UTC offset was
\* saved, and the load returned nothing.
C21_OffsetRecordLost ==
    /\ out.op = "transactions"
    /\ out.saved
    /\ Len(out.arg) = 2
    /\ out.arg[1].timestamp.form = "absent"
    /\ out.arg[2].timestamp.form = "aware"
    /\ out.value = <<>>

\* The snapshot file a save is about, as the directory holds it now.
SnapshotNow(op) ==
    CASE op = "save_goals" -> disk.GOALS_FILE
      [] op = "save_bills" -> disk.BILLS_FILE
      [] op = "save_balance" -> disk.BALANCE_FILE
      [] OTHER -> disk.TRANSACTIONS_FILE

\* The complete snapshot of a collection handed to a save.
SnapshotOf(op, arg) ==
    CASE op = "save_goals" ->
             ListFile([i \in 1 .. Len(arg) |->
                 GoalItem("dict", arg[i].name, arg[i].current_amount,
                          arg[i].target_amount)])
      [] op = "save_bills" ->
             ListFile([i \in 1 .. Len(arg) |-> BillItem("dict", arg[i].title, arg[i].amount)])
      [] op = "save_balance" -> BalanceFile("object", arg)
      [] OTHER -> ListFile(arg)

\* Lemma for C22: a save that fails before the file is opened for writing
\* leaves the previous snapshot, and one that succeeds leaves the new one.
C22_WhenNotOpenedOrWritten ==
    (out.op \in SaveOps /\ out.fs # "full") =>
        IF out.raised \/ out.reported
        THEN SnapshotNow(out.op) = out.file
        ELSE SnapshotNow(out.op) = SnapshotOf(out.op, out.arg)

\* C22: after a save the persisted snapshot is the complete new collection
\* or, when the save failed, still the complete previous one; never an
\* empty, truncated or partly written file.
C22_AllOrNothing ==
    out.op \in SaveOps =>
        IF out.raised \/ out.reported
        THEN SnapshotNow(out.op) = out.file
        ELSE SnapshotNow(out.op) = SnapshotOf(out.op, out.arg)

\* A save replaced a complete snapshot by the complete new collection.
C22_Witness ==
    /\ out.op = "save_goals"
    /\ out.file = ListFile(<<GoalItem("dict", "Trip", 0, 1000)>>)
    /\ out.arg = <<>>
    /\ ~out.reported
    /\ disk.GOALS_FILE = ListFile(<<>>)

\* The write of a save failed after the file was opened: the previous
\* snapshot, a complete list, is gone and what is left is no JSON.
C22_TruncatedSnapshot ==
    /\ out.op \in {"save_goals", "save_transactions"}
    /\ out.reported
    /\ out.file.kind = "list"
    /\ out.file.items # <<>>
    /\ SnapshotNow(out.op).kind = "garbage"

\* C25: every Goal has target_amount >= 0, however it was produced; here,
\* every goal that load_goals restores from a goals snapshot.
C25_TargetNeverNegative ==
    (out.op = "load_goals" /\ ~out.raised) =>
        \A i \in 1 .. Len(out.value) : out.value[i].target_amount >= 0

\* load_goals restored a goal from a snapshot item with target_amount -5.
C25_NegativeTargetLoaded ==
    /\ out.op = "load_goals"
    /\ ~out.raised
    /\ out.file = ListFile(<<GoalItem("dict", "Debt", 0, -5)>>)
    /\ Len(out.value) = 1
    /\ out.value[1].target_amount = -5

\* Lemma for C27: over records none of which carries a UTC offset, whatever
\* else their timestamps are, the filter returns a collection.
C27_ReturnsWithoutOffset ==
    (/\ out.op = "prune"
     /\ \A i \in 1 .. Len(out.input) : out.input[i].timestamp.form # "aware")
        => ~out.raised

\* C27: the retention filter never fails: whatever the timestamps of the
\* records (absent, empty, non-text, unparsable, local time, time with a UTC
\* offset), it returns a collection.
C27_FilterNeverFails == out.op = "prune" => ~out.raised

\* A pass over records with a non-text and an unparsable timestamp returned
\* them both.
C27_Witness ==
    /\ out.op = "prune"
    /\ out.pass = 1
    /\ ~out.raised
    /\ Len(out.input) = 2
    /\ out.input[1].timestamp.form = "number"
    /\ out.input[2].timestamp.form = "text"
    /\ out.value = out.input

\* A pass raised TypeError at a record with a UTC offset that follows a
\* record of local time inside the window.
C27_OffsetRaises ==
    /\ out.op = "prune"
    /\ out.raised
    /\ out.exc = "TypeError"
    /\ out.msg = CompareMsg
    /\ Len(out.input) = 2
    /\ out.input[1].timestamp = Naive(-3)
    /\ out.input[2].timestamp.form = "aware"

\* The values of current_amount a goal is compared under: none saved, part
\* of a target of 1000, more than it.
OtherCurrentAmounts == {0, 500, 1500}

\* C30: the result of estimate_eta_weeks does not depend on the goal's
\* current_amount: with the same entries, target_amount, lookback_days and
\* date, a goal with any other current_amount gives the same result.
C30_IndependentOfCurrentAmount ==
    (last.op = "estimate_eta_weeks" /\ goal.present) =>
        \A c \in OtherCurrentAmounts :
            Call("estimate_eta_weeks", last.arg,
                 estimate_eta_weeks(Goal(goal.name, c, goal.target_amount),
                                    transactions, last.arg.on,
                                    last.arg.lookback_days)) = last

\* A goal half saved by its current_amount got a numeric estimate from a
\* balance below that current_amount.
C30_Witness ==
    /\ last.op = "estimate_eta_weeks"
    /\ ~last.raised
    /\ last.ret.numeric
    /\ goal.present
    /\ goal.current_amount = 500
    /\ goal.target_amount = 1000
    /\ balance(transactions) < 500

\* ----------------------------------------------------- progress display
\* The amounts of the goals whose progress is displayed. Over them the
\* float expression int((current / target) * 100) is the exact quotient
\* truncated toward zero.
ProgressCurrents == {-100, 0, 250, 500, 999, 1000, 1500, 2000}
ProgressTargets == {-5, 0, 500, 1000, 2000}

\* int(a / b) for b > 0: the quotient truncated toward zero.
TruncDiv(a, b) == IF a >= 0 THEN a \div b ELSE -((-a) \div b)

\* Mutant of percent: the value is not clamped.
percent_Unclamped(g) ==
    IF g.target_amount > 0 THEN TruncDiv(g.current_amount * 100, g.target_amount) ELSE 0

\* The percentage update_from_goal and set_main_goal compute and display.
percent(g) ==
    LET p == IF g.target_amount > 0
             THEN TruncDiv(g.current_amount * 100, g.target_amount)
             ELSE 0
    IN  Max(0, Min(p, 100))

\* What a widget displays of a goal: the goal read and the percentage.
Shown(op, g) == [op |-> op, goal |-> g, percent |-> percent(g)]

\* A goal with any of the amounts, displayed nowhere yet; `gui` is
\* self.current_main_goal.
InitProgress ==
    /\ transactions = <<>>
    /\ goal \in {Goal("Trip", c, t) : c \in ProgressCurrents, t \in ProgressTargets}
    /\ today = 0
    /\ last = Call("init", <<>>, Returned(<<>>))
    /\ records = <<>>
    /\ disk = <<>>
    /\ gui = NoGoal
    /\ out = [op |-> "init", goal |-> NoGoal, percent |-> 0]

\* GoalRowWidget.update_from_goal(): reads the goal, sets the row's widgets.
UpdateFromGoal ==
    /\ out' = Shown("update_from_goal", goal)
    /\ UNCHANGED <<transactions, goal, today, last, records, disk, gui>>

\* BudgeterWindow.set_main_goal(goal): keeps the reference and sets the card.
SetMainGoalCard ==
    /\ gui' = goal
    /\ out' = Shown("set_main_goal", goal)
    /\ UNCHANGED <<transactions, goal, today, last, records, disk>>

NextProgress ==
    \/ UpdateFromGoal
    \/ SetMainGoalCard

SpecProgress == InitProgress /\ [][NextProgress]_vars

C23_MainGoalNotPersisted ==
    /\ disk.GOALS_FILE.kind = "list" =>
           \A i \in 1 .. Len(disk.GOALS_FILE.items) :
               DOMAIN disk.GOALS_FILE.items[i]
                   = {"form", "name", "current_amount", "target_amount"}
    /\ (out.op = "startup" /\ ~out.raised) =>
           gui.main = IF gui.goals = <<>> THEN 0 ELSE gui.goals[1].id

\* The window was closed with the second goal as its main goal; after the
\* restart the main goal is the first of the two goals loaded.
C23_Witness ==
    /\ out.op = "startup"
    /\ ~out.raised
    /\ out.main = 2
    /\ Len(gui.goals) = 2
    /\ gui.main = gui.goals[1].id
    /\ disk.GOALS_FILE.kind = "list"
    /\ Len(disk.GOALS_FILE.items) = 2

C29_BalanceFrame ==
    /\ [](gui.open =>
            /\ out.op = "add_income" =>
                   IF out.input > 0 THEN gui.balance = out.balance + out.input
                   ELSE gui.balance = out.balance /\ records = out.held
            /\ out.op = "add_expense" =>
                   IF out.input > 0 THEN gui.balance = out.balance - out.input
                   ELSE gui.balance = out.balance /\ records = out.held
            /\ out.op = "edit_balance" => gui.balance = out.input
            /\ out.op = "reset" => gui.balance = 0
            /\ out.op = "set_main_goal" => gui.balance = out.balance)
    /\ [][(gui.open /\ gui'.open /\ gui'.balance # gui.balance) =>
              out'.op \in {"add_income", "add_expense", "edit_balance", "reset"}]_vars

\* An income of 200 was added to a balance that an edit had set, and the
\* refresh that followed pruned an aged record: the balance moved by 200 and
\* is not the sum of the records kept.
C29_Witness ==
    /\ gui.open
    /\ out.op = "add_income"
    /\ out.input = 200
    /\ out.balance = 500
    /\ gui.balance = 700
    /\ Len(records) = Len(out.held)
    /\ Len(records) = 1

\* An income of amount 0 was submitted: nothing changed.
C29_ZeroAmountIgnored ==
    /\ gui.open
    /\ out.op = "add_income"
    /\ out.input = 0
    /\ out.held # <<>>
    /\ records = out.held
    /\ gui.balance = out.balance

\* --------------------------------------------------- the goals of the window
\* The goal handlers of the window, with the start-up, the reset and the
\* close, on a directory that holds a goals snapshot only.
MaxGoals == 2

\* What the goal dialog gives when it is accepted: name and amounts.
GoalDialogChoices == {Goal("Trip", 0, 1000), Goal("Trip", 500, 1000)}

\* The goals snapshots a window starts with.
GoalsFiles ==
    {AbsentFile,
     ListFile(<<GoalItem("dict", "Trip", 0, 1000)>>),
     ListFile(<<GoalItem("dict", "Trip", 0, 1000), GoalItem("dict", "Trip", 0, 1000)>>)}

\* The identity of a newly constructed object: one no live object has.
FreshId(w) ==
    CHOOSE n \in 1 .. Len(w.goals) + 2 :
        /\ n # w.main
        /\ \A i \in 1 .. Len(w.goals) : w.goals[i].id # n
        /\ \A k \in 1 .. n - 1 :
               k = w.main \/ \E i \in 1 .. Len(w.goals) : w.goals[i].id = k

\* list.remove(x): the list without its first item equal to x.
Remove(goals, x) ==
    LET j == CHOOSE j \in 1 .. Len(goals) :
                 /\ SameGoal(goals[j], x)
                 /\ \A k \in 1 .. j - 1 : ~SameGoal(goals[k], x)
    IN  [k \in 1 .. Len(goals) - 1 |-> IF k < j THEN goals[k] ELSE goals[k + 1]]

InitGoals ==
    /\ transactions = <<>>
    /\ goal = NoGoal
    /\ today = 0
    /\ last = Call("init", <<>>, Returned(<<>>))
    /\ records = <<>>
    /\ gui = Closed
    /\ \E file \in GoalsFiles :
           disk = Disk("ok", file, AbsentFile, AbsentFile, AbsentFile)
    /\ out = [op |-> "init", input |-> 0, now |-> 0, before |-> AbsentFile,
              held |-> <<>>, balance |-> 0, main |-> 0, saves |-> <<>>,
              raised |-> FALSE, exc |-> ""]

\* _add_goal with the dialog accepted: the new Goal is appended, and made the
\* main goal when it is the only one.
AddGoal ==
    /\ gui.open
    /\ Len(gui.goals) < MaxGoals
    /\ \E g \in GoalDialogChoices :
           LET new_goal == GoalObject(FreshId(gui), g)
               goals == Append(gui.goals, new_goal)
           IN  /\ gui' = [gui EXCEPT !.goals = goals,
                                     !.main = IF Len(goals) = 1 THEN new_goal.id ELSE @]
               /\ out' = Handled("add_goal", Len(goals), today, disk.TRANSACTIONS_FILE,
                                 records, <<>>, Returned(<<>>))
    /\ UNCHANGED <<transactions, goal, today, last, records, disk>>

\* _open_edit_goal(goal) from the row of a goal, the dialog left with Save:
\* get_goal_data() sets the fields of the object in place.
EditGoal ==
    /\ gui.open
    /\ \E i \in 1 .. Len(gui.goals), g \in GoalDialogChoices :
           /\ gui' = [gui EXCEPT !.goals[i] = GoalObject(gui.goals[i].id, g)]
           /\ out' = Handled("edit_goal", i, today, disk.TRANSACTIONS_FILE,
                             records, <<>>, Returned(<<>>))
    /\ UNCHANGED <<transactions, goal, today, last, records, disk>>

\* _open_edit_goal(goal) from the row of a goal, the dialog left with
\* Delete: self.goals.remove(goal), then, if the main goal is that object,
\* the first goal left is made the main goal, or none.
DeleteGoal ==
    /\ gui.open
    /\ \E i \in 1 .. Len(gui.goals) :
           LET goals == Remove(gui.goals, gui.goals[i])
           IN  /\ gui' = [gui EXCEPT !.goals = goals,
                                     !.main = IF @ = gui.goals[i].id
                                              THEN MainAtStartup(goals) ELSE @]
               /\ out' = Handled("delete_goal", i, today, disk.TRANSACTIONS_FILE,
                                 records, <<>>, Returned(<<>>))
    /\ UNCHANGED <<transactions, goal, today, last, records, disk>>

NextGoals ==
    \/ Startup
    \/ AddGoal
    \/ EditGoal
    \/ DeleteGoal
    \/ SetMainGoal
    \/ ResetAllData
    \/ CloseEvent

SpecGoals == InitGoals /\ [][NextGoals]_vars

\* Lemma for C28: while no two goals of the list have the same name and
\* amounts, and none had when the last handler began, the main goal is none
\* or an object of the list, and none when the list is empty.
NoTwins(goals) ==
    \A i, j \in 1 .. Len(goals) : SameGoal(goals[i], goals[j]) => i = j

C28_MainInListWithoutTwins ==
    [][(/\ gui.open
        /\ NoTwins(gui.goals)
        /\ gui.main = 0 \/ MainPosition(gui) # 0
        /\ gui'.open)
       => (gui'.main = 0 \/ MainPosition(gui') # 0)]_vars

\* C28: after any sequence of start-up, add, edit, delete, select and reset
\* of goals, two goals with the same name and amounts included, the main
\* goal is none or one of the objects of the goals list, and none when the
\* list is empty.
C28_MainGoalInList ==
    gui.open =>
        /\ gui.main = 0 \/ MainPosition(gui) # 0
        /\ gui.goals = <<>> => gui.main = 0

\* The main goal, the first of two goals with different amounts, was
\* deleted: the goal left is the main goal.
C28_Witness ==
    /\ gui.open
    /\ out.op = "delete_goal"
    /\ out.input = 1
    /\ out.main = 1
    /\ Len(gui.goals) = 1
    /\ gui.goals[1].current_amount = 500
    /\ gui.main = gui.goals[1].id

\* The second of two goals with the same name and amounts was deleted while
\* the first was the main goal: the first left the list and is still the
\* main goal; and after the other was deleted too, the list is empty.
C28_MainGoalNotInList ==
    /\ gui.open
    /\ out.op = "delete_goal"
    /\ gui.goals = <<>>
    /\ gui.main # 0

====
